---- MODULE Spec2Model ----
(***************************************************************************)
(* Pessimistic transactions of utilities/transactions/transaction_impl.cc: *)
(* TransactionImpl's commit paths, batch locking, single-key locking with  *)
(* snapshot validation, savepoints and the expiration / lock-stealing race. *)
(* The lock table (TransactionDBImpl::TryLock / UnLock), the base class    *)
(* (TransactionBaseImpl: TrackKey, Clear, save points) and the store        *)
(* (DB::Write, sequence numbers) are collaborators outside this file; they  *)
(* are modelled from their documented interface.                            *)
(*                                                                         *)
(* One thread drives each transaction.  A call is cut into steps at the    *)
(* points where it touches state shared with other threads: the clock, the *)
(* atomic exec_status_, the lock table and the store.                      *)
(***************************************************************************)
EXTENDS Integers, Sequences, FiniteSets, TLC

\* ------------------------------------------------------------------ bounds
MaxTicks == 1         \* clock advances (of one expiration unit each)
MaxSeq == 1           \* largest sequence number the store hands out
MaxBatchLen == 3      \* operations in a batch given to CommitBatch
MaxSavePoints == 2    \* depth of the save point stack
MaxCalls == 3         \* API calls made in Spec, in total
MaxRaceCalls == 5     \* API calls made in SpecRace, in total
MaxBatchCalls == 3    \* API calls made in SpecBatch, in total
MaxLockCalls == 4     \* API calls made in SpecLock, in total
MaxSaveCalls == 6     \* API calls made in SpecSave

\* ------------------------------------------------------------------ constants
MicrosPerMilli == 1000        \* txn_options.expiration * 1000
StartTime == 1000             \* Env::NowMicros() when the transactions are built
kMaxSequenceNumber == MaxSeq + 1   \* larger than every sequence number in use

\* ids of the transactions constructed at start (GenTxnID)
Txns == {1, 2}
Seqs == 0..MaxSeq

\* (column family id, key bytes); keys are byte strings
Pairs == { <<0, <<2>>>>, <<0, <<1, 2>>>>, <<1, <<1>>>> }
Kinds == {"Put", "Merge", "Delete"}
BatchOps == { [kind |-> k, cf |-> p[1], key |-> p[2]] : k \in Kinds, p \in Pairs }

RECURSIVE SeqsUpTo(_, _)
SeqsUpTo(S, n) ==
  IF n = 0 THEN {<<>>}
  ELSE LET shorter == SeqsUpTo(S, n - 1)
       IN shorter \cup { Append(q, x) : q \in shorter, x \in S }

Batches == SeqsUpTo(BatchOps, MaxBatchLen)

\* the keys and batches the racing transactions contend for
P1 == <<0, <<2>>>>
P2 == <<1, <<1>>>>
RacePairs == {P1, P2}
Op(k, p) == [kind |-> k, cf |-> p[1], key |-> p[2]]
RaceBatches == { <<Op("Put", P1), Op("Merge", P2)>>,
                 <<Op("Delete", P2), Op("Put", P1)>> }

\* txn_options.expiration: -1 is "no expiration"
Expirations == {-1, 1}

STARTED == "STARTED"
COMMITTING == "COMMITTING"
LOCKS_STOLEN == "LOCKS_STOLEN"

VARIABLES
  now,              \* Env::NowMicros()
  expiration_time,  \* [Txns -> Nat], 0 = never expires
  exec_status,      \* [Txns -> ExecutionStatus], the atomic
  registry,         \* expirable transactions registered with the TransactionDB
  alive,            \* [Txns -> BOOLEAN], FALSE once destroyed
  snapshot,         \* [Txns -> Seqs \cup {-1}], -1 = snapshot_ == nullptr
  tracked_keys,     \* [Txns -> [subset of Pairs -> sequence number]]
  save_points,      \* [Txns -> Seq(SUBSET Pairs)], new_keys_ of each save point
  locks,            \* lock table: set of <<txn id, pair>> holds
  latest_seq,       \* DB::GetLatestSequenceNumber()
  last_write,       \* [Pairs -> Seqs], sequence of the latest write to a key
  pc,               \* [Txns -> position of the driving thread]
  op,               \* [Txns -> the API call in progress or last finished]
  arg,              \* [Txns -> [pair, untracked]] arguments of TryLock
  loc,              \* [Txns -> locals of TryLock: previously_locked, current_seqno]
  batch,            \* [Txns -> the batch given to DoCommit]
  keys_,            \* [Txns -> Handler::keys_, in iteration order]
  todo,             \* [Txns -> the part of keys_ LockBatch has not visited yet]
  keys_to_unlock,   \* [Txns -> SUBSET Pairs]
  s,                \* [Txns -> Status of the call]
  can_commit,       \* [Txns -> BOOLEAN], DoCommit's local
  hist,             \* [Txns -> observations of the call, for the properties]
  cas,              \* [Txns -> outcomes of the compare-and-sets on exec_status]
  sp_ledger,        \* [Txns -> the ledger's keys when each save point was set]
  calls             \* number of API calls made so far, on all transactions

vars == << now, expiration_time, exec_status, registry, alive, snapshot,
           tracked_keys, save_points, locks, latest_seq, last_write, pc, op,
           arg, loc, batch, keys_, todo, keys_to_unlock, s, can_commit, hist,
           cas, sp_ledger, calls >>

\* ------------------------------------------------------------------ helpers
Min(a, b) == IF a < b THEN a ELSE b

Range(q) == { q[i] : i \in 1..Len(q) }

\* std::string operator<: byte-wise lexicographic
RECURSIVE StrLess(_, _)
StrLess(a, b) ==
  IF a = <<>> THEN b # <<>>
  ELSE IF b = <<>> THEN FALSE
  ELSE IF a[1] # b[1] THEN a[1] < b[1]
  ELSE StrLess(Tail(a), Tail(b))

\* keys compared without their column family
PairLessKeyOnly(p, q) == StrLess(p[2], q[2])

\* iteration order of std::map<uint32_t, std::set<std::string>>
PairLess(p, q) == p[1] < q[1] \/ (p[1] = q[1] /\ StrLess(p[2], q[2]))

\* the pairs of a set in ascending order
RECURSIVE SortedSeq(_)
SortedSeq(S) ==
  IF S = {} THEN <<>>
  ELSE LET m == CHOOSE x \in S : \A y \in S \ {x} : PairLess(x, y)
       IN <<m>> \o SortedSeq(S \ {m})

PairOf(o) == <<o.cf, o.key>>
PairsOf(b) == { PairOf(b[i]) : i \in 1..Len(b) }

\* ------------------------------------------------------------------ Handler
\* keys kept in the order they were recorded
InsertKeyAtEnd(keys, p) == Append(keys, p)

\* insertion into the ordered containers of keys_
RECURSIVE InsertKey(_, _)
InsertKey(keys, p) ==
  IF keys = <<>> THEN <<p>>
  ELSE IF PairLess(p, Head(keys)) THEN <<p>> \o keys
  ELSE <<Head(keys)>> \o InsertKey(Tail(keys), p)

\* every operation's key stored, seen before or not
RecordKeyNoFind(keys, column_family_id, key) ==
  InsertKey(keys, <<column_family_id, key>>)

RecordKey(keys, column_family_id, key) ==
  IF <<column_family_id, key>> \in Range(keys)
  THEN keys
  ELSE InsertKey(keys, <<column_family_id, key>>)

PutCF(keys, o) == RecordKey(keys, o.cf, o.key)
MergeCF(keys, o) == RecordKey(keys, o.cf, o.key)
DeleteCF(keys, o) == RecordKey(keys, o.cf, o.key)

\* WriteBatch::Iterate(&handler): every operation, in insertion order
RECURSIVE Iterate(_, _)
Iterate(b, keys) ==
  IF b = <<>> THEN keys
  ELSE LET o == Head(b)
           next == CASE o.kind = "Put" -> PutCF(keys, o)
                     [] o.kind = "Merge" -> MergeCF(keys, o)
                     [] o.kind = "Delete" -> DeleteCF(keys, o)
       IN Iterate(Tail(b), next)

\* ------------------------------------------------------------------ status
\* std::atomic_compare_exchange_strong on a status value
CompareExchange(cur, expected, desired) ==
  [ok |-> cur = expected, val |-> IF cur = expected THEN desired ELSE cur]

IsExpired(t) ==
  expiration_time[t] > 0 /\ now >= expiration_time[t]

\* a plain exchange in place of the compare-and-set
TryStealingLocksExchange(cur) == [ok |-> TRUE, val |-> LOCKS_STOLEN]

TryStealingLocks(cur) == CompareExchange(cur, STARTED, LOCKS_STOLEN)

\* a plain store of COMMITTING in place of the compare-and-set
DoCommitCompareExchangeStore(cur) ==
  [ok |-> TRUE, val |-> COMMITTING]

\* the result of the compare-and-set is not looked at
DoCommitCompareExchangeUnchecked(cur) ==
  [ok |-> TRUE, val |-> CompareExchange(cur, STARTED, COMMITTING).val]

DoCommitCompareExchange(cur) == CompareExchange(cur, STARTED, COMMITTING)

\* ------------------------------------------------------------------ lock table
Holders(p) == { u \in Txns : <<u, p>> \in locks }
HeldBy(t) == { p \in Pairs : <<t, p>> \in locks }

\* release(txn_id, keys): drops the holds of txn_id on the keys
UnLock(lk, t, keys) == lk \ { <<t, p>> : p \in keys }

Bump(n) == Min(n + 1, 2)

\* acquire(txn_id, cf, key) succeeds: the key is free or already held by the
\* caller, or its holder is expired and the holder's TryStealingLocks wins
AcquireGranted(t, p) ==
  \/ /\ Holders(p) \ {t} = {}
     /\ locks' = locks \cup {<<t, p>>}
     /\ UNCHANGED << exec_status, cas >>
  \/ \E u \in Holders(p) \ {t} :
       /\ u \in registry
       /\ IsExpired(u)
       /\ TryStealingLocks(exec_status[u]).ok
       /\ exec_status' = [exec_status EXCEPT ![u] = TryStealingLocks(exec_status[u]).val]
       /\ locks' = (locks \ {<<u, p>>}) \cup {<<t, p>>}
       /\ cas' = [cas EXCEPT ![u].steal = Bump(@)]

\* acquire cannot be granted now: another transaction holds the key and is
\* either not expired or refuses the steal; the caller waits up to lock_timeout_
AcquireBlocked(t, p) ==
  \E u \in Holders(p) \ {t} :
    ~(u \in registry /\ IsExpired(u) /\ TryStealingLocks(exec_status[u]).ok)

\* the steal attempts a timed-out acquire has made and lost
LostSteals(t, p) ==
  [u \in Txns |->
     IF u \in Holders(p) \ {t} /\ u \in registry /\ IsExpired(u)
     THEN [cas[u] EXCEPT !.lost = TRUE]
     ELSE cas[u]]

\* ------------------------------------------------------------------ base class
\* TransactionBaseImpl::TrackKey: record the key; a key new to the ledger is
\* also noted in the innermost save point
TrackKeyLedger(ledger, p, seq) ==
  [q \in DOMAIN ledger \cup {p} |-> IF q = p THEN seq ELSE ledger[q]]

TrackKeySavePoints(ledger, sps, p) ==
  IF p \notin DOMAIN ledger /\ sps # <<>>
  THEN [sps EXCEPT ![Len(sps)] = @ \cup {p}]
  ELSE sps

Untrack(ledger, keys) == [q \in DOMAIN ledger \ keys |-> ledger[q]]

EmptyLedger == [q \in {} |-> 0]

GetTrackedKeys(t) == DOMAIN tracked_keys[t]

\* the write batch accumulated on the transaction: one Put per tracked key
GetWriteBatch(t) ==
  LET q == SortedSeq(GetTrackedKeys(t))
  IN [i \in 1..Len(q) |-> [kind |-> "Put", cf |-> q[i][1], key |-> q[i][2]]]

\* ------------------------------------------------------------------ store
\* DB::Write: the committed write takes the next sequence number, which
\* becomes the latest write of every key in the batch
WriteSeq(b) == IF b = <<>> THEN latest_seq ELSE latest_seq + 1
WriteLast(b) ==
  [p \in Pairs |-> IF p \in PairsOf(b) THEN WriteSeq(b) ELSE last_write[p]]

\* TransactionUtil::CheckKeyForConflicts(db, cf, key, snapshot seq)
CheckKeyForConflicts(p, snap_seq) ==
  IF last_write[p] > snap_seq THEN "Conflict" ELSE "OK"

\* ------------------------------------------------------------------ calls
NoArg == [pair |-> <<0, <<>>>>, untracked |-> FALSE]
NoLoc == [previously_locked |-> FALSE, current_seqno |-> kMaxSequenceNumber]
NoHist == [acq |-> <<>>, wrote |-> FALSE, held_before |-> {},
           ledger_before |-> {}, checked |-> "none"]

\* a call starts on an idle live transaction; its locals start fresh
Enter(t, name, a, l, b, keys, status) ==
  /\ pc[t] = "idle"
  /\ alive[t]
  /\ calls' = calls + 1
  /\ op' = [op EXCEPT ![t] = name]
  /\ arg' = [arg EXCEPT ![t] = a]
  /\ loc' = [loc EXCEPT ![t] = l]
  /\ batch' = [batch EXCEPT ![t] = b]
  /\ keys_' = [keys_ EXCEPT ![t] = keys]
  /\ todo' = [todo EXCEPT ![t] = keys]
  /\ keys_to_unlock' = [keys_to_unlock EXCEPT ![t] = {}]
  /\ s' = [s EXCEPT ![t] = status]
  /\ can_commit' = [can_commit EXCEPT ![t] = FALSE]
  /\ hist' = [hist EXCEPT ![t] = [NoHist EXCEPT !.held_before = HeldBy(t),
                                               !.ledger_before = GetTrackedKeys(t)]]

\* the state after construction (lines 37-63) of transactions built with
\* options drawn from E (expiration) and S (set_snapshot)
InitWith(E, S) ==
  /\ now = StartTime
  /\ \E e \in E :
       expiration_time =
         [t \in Txns |-> IF e[t] >= 0 THEN StartTime + e[t] * MicrosPerMilli ELSE 0]
  /\ exec_status = [t \in Txns |-> STARTED]
  /\ registry = { t \in Txns : expiration_time[t] > 0 }
  /\ alive = [t \in Txns |-> TRUE]
  /\ \E set_snapshot \in S :
       snapshot = [t \in Txns |-> IF set_snapshot[t] THEN 0 ELSE -1]
  /\ tracked_keys = [t \in Txns |-> EmptyLedger]
  /\ save_points = [t \in Txns |-> <<>>]
  /\ locks = {}
  /\ latest_seq = 0
  /\ last_write = [p \in Pairs |-> 0]
  /\ pc = [t \in Txns |-> "idle"]
  /\ op = [t \in Txns |-> "none"]
  /\ arg = [t \in Txns |-> NoArg]
  /\ loc = [t \in Txns |-> NoLoc]
  /\ batch = [t \in Txns |-> <<>>]
  /\ keys_ = [t \in Txns |-> <<>>]
  /\ todo = [t \in Txns |-> <<>>]
  /\ keys_to_unlock = [t \in Txns |-> {}]
  /\ s = [t \in Txns |-> "OK"]
  /\ can_commit = [t \in Txns |-> FALSE]
  /\ hist = [t \in Txns |-> NoHist]
  /\ cas = [t \in Txns |-> [commit |-> 0, steal |-> 0, lost |-> FALSE]]
  /\ sp_ledger = [t \in Txns |-> <<>>]
  /\ calls = 0

\* expiration options, up to renaming of the transactions
ExpirationChoices == { e \in [Txns -> Expirations] : e[1] >= e[2] }

\* ------------------------------------------------------------------ clock
Tick ==
  /\ now < StartTime + MaxTicks * MicrosPerMilli
  /\ now' = now + MicrosPerMilli
  /\ UNCHANGED << expiration_time, exec_status, registry, alive, snapshot,
                  tracked_keys, save_points, locks, latest_seq, last_write, pc,
                  op, arg, loc, batch, keys_, todo, keys_to_unlock, s,
                  can_commit, hist, cas, calls, sp_ledger >>

\* ------------------------------------------------------------------ base calls
SetSnapshot(t) ==
  /\ Enter(t, "SetSnapshot", NoArg, NoLoc, <<>>, <<>>, "OK")
  /\ snapshot' = [snapshot EXCEPT ![t] = latest_seq]
  /\ UNCHANGED << now, expiration_time, exec_status, registry, alive,
                  tracked_keys, save_points, locks, latest_seq, last_write, pc,
                  cas, sp_ledger >>

SetSavePoint(t) ==
  /\ Enter(t, "SetSavePoint", NoArg, NoLoc, <<>>, <<>>, "OK")
  /\ Len(save_points[t]) < MaxSavePoints
  /\ save_points' = [save_points EXCEPT ![t] = Append(@, {})]
  /\ sp_ledger' = [sp_ledger EXCEPT ![t] = Append(@, GetTrackedKeys(t))]
  /\ UNCHANGED << now, expiration_time, exec_status, registry, alive, snapshot,
                  tracked_keys, locks, latest_seq, last_write, pc, cas >>

\* ------------------------------------------------------------------ TryLock

\* the lock table is asked whether or not the ledger has the key
TryLockCallAlwaysAcquire(t, p, untracked) ==
  LET previously_locked == p \in GetTrackedKeys(t)
      current_seqno == IF previously_locked THEN tracked_keys[t][p]
                       ELSE kMaxSequenceNumber
  IN /\ Enter(t, "TryLock", [pair |-> p, untracked |-> untracked],
              [previously_locked |-> previously_locked,
               current_seqno |-> current_seqno], <<>>, <<>>, "OK")
     /\ pc' = [pc EXCEPT ![t] = "TryLock_acquire"]
     /\ UNCHANGED << now, expiration_time, exec_status, registry, alive,
                     snapshot, tracked_keys, save_points, locks, latest_seq,
                     last_write, cas, sp_ledger >>

\* lines 235-256: look the key up in the ledger
TryLockCall(t, p, untracked) ==
  LET previously_locked == p \in GetTrackedKeys(t)
      current_seqno == IF previously_locked THEN tracked_keys[t][p]
                       ELSE kMaxSequenceNumber
  IN /\ Enter(t, "TryLock", [pair |-> p, untracked |-> untracked],
              [previously_locked |-> previously_locked,
               current_seqno |-> current_seqno], <<>>, <<>>, "OK")
     /\ pc' = [pc EXCEPT ![t] = IF previously_locked THEN "TryLock_validate"
                                ELSE "TryLock_acquire"]
     /\ UNCHANGED << now, expiration_time, exec_status, registry, alive,
                     snapshot, tracked_keys, save_points, locks, latest_seq,
                     last_write, cas, sp_ledger >>

\* lines 259-261: txn_db_impl_->TryLock returns OK
TryLockAcquire(t) ==
  /\ pc[t] = "TryLock_acquire"
  /\ AcquireGranted(t, arg[t].pair)
  /\ hist' = [hist EXCEPT ![t].acq = Append(@, arg[t].pair)]
  /\ pc' = [pc EXCEPT ![t] = "TryLock_validate"]
  /\ UNCHANGED << now, expiration_time, registry, alive, snapshot, tracked_keys,
                  save_points, latest_seq, last_write, op, arg, loc, batch,
                  keys_, todo, keys_to_unlock, s, can_commit, calls,
                  sp_ledger >>

\* lines 259-261: txn_db_impl_->TryLock gives up after lock_timeout_
TryLockTimeout(t) ==
  /\ pc[t] = "TryLock_acquire"
  /\ AcquireBlocked(t, arg[t].pair)
  /\ s' = [s EXCEPT ![t] = "LockTimeout"]
  /\ cas' = LostSteals(t, arg[t].pair)
  /\ hist' = [hist EXCEPT ![t].acq = Append(@, arg[t].pair)]
  /\ pc' = [pc EXCEPT ![t] = "TryLock_validate"]
  /\ UNCHANGED << now, expiration_time, exec_status, registry, alive, snapshot,
                  tracked_keys, save_points, locks, latest_seq, last_write, op,
                  arg, loc, batch, keys_, todo, keys_to_unlock, can_commit, calls,
                  sp_ledger >>

\* the snapshot's sequence number is not handed back through new_seqno
ValidateSnapshotKeepsSeqno(t, p, prev_seqno, new_seqno) ==
  LET seq == snapshot[t]
  IN IF prev_seqno <= seq
     THEN [status |-> "OK", new_seqno |-> new_seqno]
     ELSE [status |-> CheckKeyForConflicts(p, seq), new_seqno |-> new_seqno]

\* lines 309-334
ValidateSnapshot(t, p, prev_seqno, new_seqno) ==
  LET seq == snapshot[t]
  IN IF prev_seqno <= seq
     THEN [status |-> "OK", new_seqno |-> new_seqno]
     ELSE [status |-> CheckKeyForConflicts(p, seq), new_seqno |-> seq]

\* the untracked flag is not looked at: validation is skipped only without a
\* snapshot
TryLockOutcomeValidatesUntracked(t) ==
  LET p == arg[t].pair
      current_seqno == loc[t].current_seqno
  IN IF snapshot[t] = -1
     THEN [status |-> s[t],
           new_seqno |-> IF current_seqno = kMaxSequenceNumber
                         THEN latest_seq ELSE current_seqno]
     ELSE IF s[t] = "OK"
          THEN ValidateSnapshot(t, p, current_seqno, kMaxSequenceNumber)
          ELSE [status |-> s[t], new_seqno |-> kMaxSequenceNumber]

\* lines 263-297: the status and new_seqno TryLock ends with
TryLockOutcome(t) ==
  LET p == arg[t].pair
      current_seqno == loc[t].current_seqno
  IN IF arg[t].untracked \/ snapshot[t] = -1
     THEN [status |-> s[t],
           new_seqno |-> IF current_seqno = kMaxSequenceNumber
                         THEN latest_seq ELSE current_seqno]
     ELSE IF s[t] = "OK"
          THEN ValidateSnapshot(t, p, current_seqno, kMaxSequenceNumber)
          ELSE [status |-> s[t], new_seqno |-> kMaxSequenceNumber]

\* the lock taken in this call is kept when validation fails
TryLockReleasesNever(t) == FALSE

\* a failed validation gives back the key also when it was locked before the call
TryLockReleasesAlsoHeld(t) ==
  /\ ~(arg[t].untracked \/ snapshot[t] = -1)
  /\ s[t] = "OK"
  /\ TryLockOutcome(t).status # "OK"

\* lines 289-295: a failed validation gives back the lock taken in this call
TryLockReleases(t) ==
  /\ ~(arg[t].untracked \/ snapshot[t] = -1)
  /\ s[t] = "OK"
  /\ TryLockOutcome(t).status # "OK"
  /\ ~loc[t].previously_locked

\* lines 263-304
TryLockFinish(t) ==
  /\ pc[t] = "TryLock_validate"
  /\ LET out == TryLockOutcome(t)
         p == arg[t].pair
     IN /\ s' = [s EXCEPT ![t] = out.status]
        /\ locks' = IF TryLockReleases(t) THEN UnLock(locks, t, {p}) ELSE locks
        /\ IF out.status = "OK"
           THEN /\ tracked_keys' = [tracked_keys EXCEPT ![t] =
                                      TrackKeyLedger(@, p, out.new_seqno)]
                /\ save_points' = [save_points EXCEPT ![t] =
                                     TrackKeySavePoints(tracked_keys[t], @, p)]
           ELSE UNCHANGED << tracked_keys, save_points >>
  /\ pc' = [pc EXCEPT ![t] = "idle"]
  /\ UNCHANGED << now, expiration_time, exec_status, registry, alive, snapshot,
                  latest_seq, last_write, op, arg, loc, batch, keys_, todo,
                  keys_to_unlock, can_commit, hist, cas, calls, sp_ledger >>

\* ------------------------------------------------------------------ LockBatch
\* lines 88-91, 195-199: CommitBatch enters LockBatch, the handler collects
\* the keys of the batch
CommitBatchCall(t, b) ==
  LET keys == Iterate(b, <<>>)
  IN /\ Enter(t, "CommitBatch", NoArg, NoLoc, b, keys, "OK")
     /\ pc' = [pc EXCEPT ![t] = IF keys = <<>> THEN "DoCommit" ELSE "LockBatch"]
     /\ UNCHANGED << now, expiration_time, exec_status, registry, alive,
                     snapshot, tracked_keys, save_points, locks, latest_seq,
                     last_write, cas, sp_ledger >>

\* lines 202-214: the next key of keys_ is locked and noted in keys_to_unlock
LockBatchAcquire(t) ==
  /\ pc[t] = "LockBatch"
  /\ LET p == Head(todo[t])
     IN /\ AcquireGranted(t, p)
        /\ keys_to_unlock' = [keys_to_unlock EXCEPT ![t] = @ \cup {p}]
        /\ hist' = [hist EXCEPT ![t].acq = Append(@, p)]
  /\ todo' = [todo EXCEPT ![t] = Tail(@)]
  /\ pc' = [pc EXCEPT ![t] = IF Tail(todo[t]) = <<>> THEN "DoCommit" ELSE "LockBatch"]
  /\ UNCHANGED << now, expiration_time, registry, alive, snapshot, tracked_keys,
                  save_points, latest_seq, last_write, op, arg, loc, batch,
                  keys_, s, can_commit, calls, sp_ledger >>

\* lines 209-225 and 93, 99: the acquire fails, LockBatch unlocks
\* keys_to_unlock and CommitBatch returns the failure
LockBatchFail(t) ==
  /\ pc[t] = "LockBatch"
  /\ AcquireBlocked(t, Head(todo[t]))
  /\ s' = [s EXCEPT ![t] = "LockTimeout"]
  /\ cas' = LostSteals(t, Head(todo[t]))
  /\ hist' = [hist EXCEPT ![t].acq = Append(@, Head(todo[t]))]
  /\ locks' = UnLock(locks, t, keys_to_unlock[t])
  /\ pc' = [pc EXCEPT ![t] = "idle"]
  /\ UNCHANGED << now, expiration_time, exec_status, registry, alive, snapshot,
                  tracked_keys, save_points, latest_seq, last_write, op, arg,
                  loc, batch, keys_, todo, keys_to_unlock, can_commit, calls,
                  sp_ledger >>

\* ------------------------------------------------------------------ DoCommit
\* where the caller of DoCommit continues: Clear() in Commit, UnLock in CommitBatch
AfterDoCommit(t) == IF op[t] = "Commit" THEN "Clear" ELSE "CommitBatch_unlock"

\* line 102-103
CommitCall(t) ==
  /\ Enter(t, "Commit", NoArg, NoLoc, GetWriteBatch(t), <<>>, "OK")
  /\ pc' = [pc EXCEPT ![t] = "DoCommit"]
  /\ UNCHANGED << now, expiration_time, exec_status, registry, alive, snapshot,
                  tracked_keys, save_points, locks, latest_seq, last_write, cas,
                  sp_ledger >>

\* lines 113-116, 135: the expiry check
DoCommitCheck(t) ==
  /\ pc[t] = "DoCommit"
  /\ IF expiration_time[t] > 0
     THEN IF IsExpired(t)
          THEN /\ s' = [s EXCEPT ![t] = "Expired"]
               /\ hist' = [hist EXCEPT ![t].checked = "expired"]
               /\ pc' = [pc EXCEPT ![t] = AfterDoCommit(t)]
          ELSE /\ hist' = [hist EXCEPT ![t].checked = "live"]
               /\ pc' = [pc EXCEPT ![t] = "DoCommit_cas"]
               /\ UNCHANGED s
     ELSE /\ pc' = [pc EXCEPT ![t] = "DoCommit_write"]
          /\ UNCHANGED << s, hist >>
  /\ UNCHANGED << now, expiration_time, exec_status, registry, alive, snapshot,
                  tracked_keys, save_points, locks, latest_seq, last_write, op,
                  arg, loc, batch, keys_, todo, keys_to_unlock, can_commit, cas, calls,
                  sp_ledger >>

\* lines 123-134: the compare-and-set STARTED -> COMMITTING
DoCommitCAS(t) ==
  /\ pc[t] = "DoCommit_cas"
  /\ LET r == DoCommitCompareExchange(exec_status[t])
     IN /\ exec_status' = [exec_status EXCEPT ![t] = r.val]
        /\ can_commit' = [can_commit EXCEPT ![t] = r.ok]
        /\ cas' = [cas EXCEPT ![t].commit = IF r.ok THEN Bump(@) ELSE @]
        /\ IF r.ok
           THEN /\ pc' = [pc EXCEPT ![t] = "DoCommit_write"]
                /\ UNCHANGED s
           ELSE /\ pc' = [pc EXCEPT ![t] = AfterDoCommit(t)]
                /\ s' = [s EXCEPT ![t] = "Expired"]
  /\ UNCHANGED << now, expiration_time, registry, alive, snapshot, tracked_keys,
                  save_points, locks, latest_seq, last_write, op, arg, loc,
                  batch, keys_, todo, keys_to_unlock, hist, calls, sp_ledger >>

\* lines 130, 136: db_->Write(write_options_, batch)
DoCommitWrite(t) ==
  /\ pc[t] = "DoCommit_write"
  /\ \/ /\ WriteSeq(batch[t]) <= MaxSeq
        /\ latest_seq' = WriteSeq(batch[t])
        /\ last_write' = WriteLast(batch[t])
        /\ s' = [s EXCEPT ![t] = "OK"]
        /\ hist' = [hist EXCEPT ![t].wrote = TRUE]
     \/ /\ s' = [s EXCEPT ![t] = "StoreWriteError"]
        /\ hist' = [hist EXCEPT ![t].wrote = TRUE]
        /\ UNCHANGED << latest_seq, last_write >>
  /\ pc' = [pc EXCEPT ![t] = AfterDoCommit(t)]
  /\ UNCHANGED << now, expiration_time, exec_status, registry, alive, snapshot,
                  tracked_keys, save_points, locks, op, arg, loc, batch, keys_,
                  todo, keys_to_unlock, can_commit, cas, calls, sp_ledger >>

\* keys_to_unlock unlocked only after a successful DoCommit
CommitBatchUnlockIfOk(t) ==
  /\ pc[t] = "CommitBatch_unlock"
  /\ locks' = IF s[t] = "OK" THEN UnLock(locks, t, keys_to_unlock[t]) ELSE locks
  /\ pc' = [pc EXCEPT ![t] = "idle"]
  /\ UNCHANGED << now, expiration_time, exec_status, registry, alive, snapshot,
                  tracked_keys, save_points, latest_seq, last_write, op, arg,
                  loc, batch, keys_, todo, keys_to_unlock, s, can_commit, hist,
                  cas, calls, sp_ledger >>

\* line 96: CommitBatch unlocks keys_to_unlock after DoCommit
CommitBatchUnlock(t) ==
  /\ pc[t] = "CommitBatch_unlock"
  /\ locks' = UnLock(locks, t, keys_to_unlock[t])
  /\ pc' = [pc EXCEPT ![t] = "idle"]
  /\ UNCHANGED << now, expiration_time, exec_status, registry, alive, snapshot,
                  tracked_keys, save_points, latest_seq, last_write, op, arg,
                  loc, batch, keys_, todo, keys_to_unlock, s, can_commit, hist,
                  cas, calls, sp_ledger >>

\* ------------------------------------------------------------------ Clear
\* the tracked keys unlocked whoever holds them
ClearStateAnyHolder(t) ==
  /\ locks' = { h \in locks : h[2] \notin GetTrackedKeys(t) }
  /\ tracked_keys' = [tracked_keys EXCEPT ![t] = EmptyLedger]
  /\ save_points' = [save_points EXCEPT ![t] = <<>>]
  /\ sp_ledger' = [sp_ledger EXCEPT ![t] = <<>>]

\* lines 72-75: unlock the tracked keys, then TransactionBaseImpl::Clear()
ClearState(t) ==
  /\ locks' = UnLock(locks, t, GetTrackedKeys(t))
  /\ tracked_keys' = [tracked_keys EXCEPT ![t] = EmptyLedger]
  /\ save_points' = [save_points EXCEPT ![t] = <<>>]
  /\ sp_ledger' = [sp_ledger EXCEPT ![t] = <<>>]

\* Clear() reached only when DoCommit returned OK
ClearOnlyIfOk(t) ==
  /\ pc[t] = "Clear"
  /\ IF s[t] = "OK"
     THEN ClearState(t)
     ELSE UNCHANGED << locks, tracked_keys, save_points, sp_ledger >>
  /\ pc' = [pc EXCEPT ![t] = "idle"]
  /\ UNCHANGED << now, expiration_time, exec_status, registry, alive, snapshot,
                  latest_seq, last_write, op, arg, loc, batch, keys_, todo,
                  keys_to_unlock, s, can_commit, hist, cas, calls >>

\* line 105: Commit's Clear()
Clear(t) ==
  /\ pc[t] = "Clear"
  /\ ClearState(t)
  /\ pc' = [pc EXCEPT ![t] = "idle"]
  /\ UNCHANGED << now, expiration_time, exec_status, registry, alive, snapshot,
                  latest_seq, last_write, op, arg, loc, batch, keys_, todo,
                  keys_to_unlock, s, can_commit, hist, cas, calls >>

\* line 142
Rollback(t) ==
  /\ Enter(t, "Rollback", NoArg, NoLoc, <<>>, <<>>, "OK")
  /\ ClearState(t)
  /\ UNCHANGED << now, expiration_time, exec_status, registry, alive, snapshot,
                  latest_seq, last_write, pc, cas >>

\* lines 144-152
GetTrackedKeysSinceSavePoint(t) ==
  IF save_points[t] = <<>> THEN {} ELSE save_points[t][Len(save_points[t])]

\* every tracked key is unlocked, not only those since the save point
RollbackToSavePointUnlocksAll(t) ==
  /\ Enter(t, "RollbackToSavePoint", NoArg, NoLoc, <<>>, <<>>,
           IF save_points[t] = <<>> THEN "NotFound" ELSE "OK")
  /\ LET keys == GetTrackedKeysSinceSavePoint(t)
     IN /\ locks' = UnLock(locks, t, GetTrackedKeys(t))
        /\ tracked_keys' = [tracked_keys EXCEPT ![t] = Untrack(@, keys)]
  /\ save_points' = [save_points EXCEPT ![t] =
                       IF @ = <<>> THEN @ ELSE SubSeq(@, 1, Len(@) - 1)]
  /\ sp_ledger' = [sp_ledger EXCEPT ![t] =
                     IF @ = <<>> THEN @ ELSE SubSeq(@, 1, Len(@) - 1)]
  /\ UNCHANGED << now, expiration_time, exec_status, registry, alive, snapshot,
                  latest_seq, last_write, pc, cas >>

RollbackToSavePoint(t) ==
  /\ Enter(t, "RollbackToSavePoint", NoArg, NoLoc, <<>>, <<>>,
           IF save_points[t] = <<>> THEN "NotFound" ELSE "OK")
  /\ LET keys == GetTrackedKeysSinceSavePoint(t)
     IN /\ locks' = UnLock(locks, t, keys)
        /\ tracked_keys' = [tracked_keys EXCEPT ![t] = Untrack(@, keys)]
  /\ save_points' = [save_points EXCEPT ![t] =
                       IF @ = <<>> THEN @ ELSE SubSeq(@, 1, Len(@) - 1)]
  /\ sp_ledger' = [sp_ledger EXCEPT ![t] =
                     IF @ = <<>> THEN @ ELSE SubSeq(@, 1, Len(@) - 1)]
  /\ UNCHANGED << now, expiration_time, exec_status, registry, alive, snapshot,
                  latest_seq, last_write, pc, cas >>

\* the destructor without its UnLock call
DestroyKeepsLocks(t) ==
  /\ pc[t] = "idle"
  /\ alive[t]
  /\ locks' = locks
  /\ registry' = IF expiration_time[t] > 0 THEN registry \ {t} ELSE registry
  /\ alive' = [alive EXCEPT ![t] = FALSE]
  /\ tracked_keys' = [tracked_keys EXCEPT ![t] = EmptyLedger]
  /\ save_points' = [save_points EXCEPT ![t] = <<>>]
  /\ sp_ledger' = [sp_ledger EXCEPT ![t] = <<>>]
  /\ snapshot' = [snapshot EXCEPT ![t] = -1]
  /\ pc' = [pc EXCEPT ![t] = "destroyed"]
  /\ op' = [op EXCEPT ![t] = "~TransactionImpl"]
  /\ arg' = [arg EXCEPT ![t] = NoArg]
  /\ loc' = [loc EXCEPT ![t] = NoLoc]
  /\ batch' = [batch EXCEPT ![t] = <<>>]
  /\ keys_' = [keys_ EXCEPT ![t] = <<>>]
  /\ todo' = [todo EXCEPT ![t] = <<>>]
  /\ keys_to_unlock' = [keys_to_unlock EXCEPT ![t] = {}]
  /\ s' = [s EXCEPT ![t] = "OK"]
  /\ can_commit' = [can_commit EXCEPT ![t] = FALSE]
  /\ hist' = [hist EXCEPT ![t] = [NoHist EXCEPT !.held_before = HeldBy(t),
                                               !.ledger_before = GetTrackedKeys(t)]]
  /\ UNCHANGED << now, expiration_time, exec_status, latest_seq, last_write,
                  cas, calls >>

\* lines 65-70: the destructor; the object's fields are gone afterwards
Destroy(t) ==
  /\ pc[t] = "idle"
  /\ alive[t]
  /\ locks' = UnLock(locks, t, GetTrackedKeys(t))
  /\ registry' = IF expiration_time[t] > 0 THEN registry \ {t} ELSE registry
  /\ alive' = [alive EXCEPT ![t] = FALSE]
  /\ tracked_keys' = [tracked_keys EXCEPT ![t] = EmptyLedger]
  /\ save_points' = [save_points EXCEPT ![t] = <<>>]
  /\ sp_ledger' = [sp_ledger EXCEPT ![t] = <<>>]
  /\ snapshot' = [snapshot EXCEPT ![t] = -1]
  /\ pc' = [pc EXCEPT ![t] = "destroyed"]
  /\ op' = [op EXCEPT ![t] = "~TransactionImpl"]
  /\ arg' = [arg EXCEPT ![t] = NoArg]
  /\ loc' = [loc EXCEPT ![t] = NoLoc]
  /\ batch' = [batch EXCEPT ![t] = <<>>]
  /\ keys_' = [keys_ EXCEPT ![t] = <<>>]
  /\ todo' = [todo EXCEPT ![t] = <<>>]
  /\ keys_to_unlock' = [keys_to_unlock EXCEPT ![t] = {}]
  /\ s' = [s EXCEPT ![t] = "OK"]
  /\ can_commit' = [can_commit EXCEPT ![t] = FALSE]
  /\ hist' = [hist EXCEPT ![t] = [NoHist EXCEPT !.held_before = HeldBy(t),
                                               !.ledger_before = GetTrackedKeys(t)]]
  /\ UNCHANGED << now, expiration_time, exec_status, latest_seq, last_write,
                  cas, calls >>

\* ------------------------------------------------------------------ spec
\* steps inside TryLock
TryLockSteps ==
  \/ \E t \in Txns : TryLockAcquire(t)
  \/ \E t \in Txns : TryLockTimeout(t)
  \/ \E t \in Txns : TryLockFinish(t)

\* steps inside CommitBatch
CommitBatchSteps ==
  \/ \E t \in Txns : LockBatchAcquire(t)
  \/ \E t \in Txns : LockBatchFail(t)
  \/ \E t \in Txns : CommitBatchUnlock(t)

\* steps inside DoCommit
DoCommitSteps ==
  \/ \E t \in Txns : DoCommitCheck(t)
  \/ \E t \in Txns : DoCommitCAS(t)
  \/ \E t \in Txns : DoCommitWrite(t)

\* A commit in flight against lock stealing and batch locking.
InitRace == InitWith(ExpirationChoices, {[t \in Txns |-> FALSE]})

RaceBatch == <<Op("Delete", P2), Op("Put", P1)>>

NextRace ==
  \/ Tick
  \/ \E t \in Txns, p \in RacePairs : calls < MaxRaceCalls /\ TryLockCall(t, p, FALSE)
  \/ \E t \in Txns : calls < MaxRaceCalls /\ CommitBatchCall(t, RaceBatch)
  \/ \E t \in Txns : calls < MaxRaceCalls /\ CommitCall(t)
  \/ TryLockSteps
  \/ CommitBatchSteps
  \/ DoCommitSteps
  \/ \E t \in Txns : Clear(t)

SpecRace == InitRace /\ [][NextRace]_vars

\* Two transactions locking and committing batches with overlapping keys.
NextBatch ==
  \/ Tick
  \/ \E t \in Txns, p \in RacePairs : calls < MaxBatchCalls /\ TryLockCall(t, p, FALSE)
  \/ \E t \in Txns, b \in RaceBatches : calls < MaxBatchCalls /\ CommitBatchCall(t, b)
  \/ TryLockSteps
  \/ CommitBatchSteps
  \/ DoCommitSteps

SpecBatch == InitRace /\ [][NextBatch]_vars

\* One transaction committing, in its first call, a batch of any shape.
NextPlan ==
  \/ op[1] = "none" /\ \E b \in Batches : CommitBatchCall(1, b)
  \/ LockBatchAcquire(1)
  \/ DoCommitCheck(1)
  \/ DoCommitCAS(1)
  \/ DoCommitWrite(1)
  \/ CommitBatchUnlock(1)

SpecPlan == InitRace /\ [][NextPlan]_vars

\* Single-key locking with and without snapshots, against committed writes;
\* no transaction expires.
InitLock == InitWith({[t \in Txns |-> -1]},
                     {[t \in Txns |-> FALSE], [t \in Txns |-> TRUE]})

NextLock ==
  \/ \E t \in Txns : calls < MaxLockCalls /\ SetSnapshot(t)
  \/ \E t \in Txns, p \in RacePairs, untracked \in BOOLEAN :
       calls < MaxLockCalls /\ TryLockCall(t, p, untracked)
  \/ \E t \in Txns : calls < MaxLockCalls /\ CommitCall(t)
  \/ TryLockSteps
  \/ \E t \in Txns : DoCommitCheck(t)
  \/ \E t \in Txns : DoCommitWrite(t)
  \/ \E t \in Txns : Clear(t)

SpecLock == InitLock /\ [][NextLock]_vars

\* One transaction locking keys between save points and rolling back to them;
\* it makes every call.
InitSave == InitWith({[t \in Txns |-> -1]}, {[t \in Txns |-> FALSE]})

NextSave ==
  \/ calls < MaxSaveCalls /\ SetSavePoint(1)
  \/ \E p \in Pairs : calls < MaxSaveCalls /\ TryLockCall(1, p, FALSE)
  \/ calls < MaxSaveCalls /\ RollbackToSavePoint(1)
  \/ TryLockAcquire(1)
  \/ TryLockFinish(1)

SpecSave == InitSave /\ [][NextSave]_vars

\* The whole interface, driven on two transactions.
Init == InitWith(ExpirationChoices, {[t \in Txns |-> FALSE], [t \in Txns |-> TRUE]})

Next ==
  \/ Tick
  \/ \E t \in Txns : calls < MaxCalls /\ SetSavePoint(t)
  \/ \E t \in Txns, p \in RacePairs : calls < MaxCalls /\ TryLockCall(t, p, FALSE)
  \/ \E t \in Txns : calls < MaxCalls /\ CommitBatchCall(t, RaceBatch)
  \/ \E t \in Txns : calls < MaxCalls /\ CommitCall(t)
  \/ \E t \in Txns : calls < MaxCalls /\ Rollback(t)
  \/ \E t \in Txns : calls < MaxCalls /\ RollbackToSavePoint(t)
  \/ TryLockSteps
  \/ CommitBatchSteps
  \/ DoCommitSteps
  \/ \E t \in Txns : Clear(t)
  \/ \E t \in Txns : Destroy(t)

Spec == Init /\ [][Next]_vars

\* ------------------------------------------------------------------ properties
IsPrefix(a, b) == Len(a) <= Len(b) /\ \A i \in 1..Len(a) : a[i] = b[i]

\* DoCommit's compare-and-set was made and lost
CommitCasLost(t) ==
  /\ op[t] \in {"Commit", "CommitBatch"}
  /\ hist[t].checked = "live"
  /\ pc[t] \in {"Clear", "CommitBatch_unlock", "idle"}
  /\ ~can_commit[t]

\* C1: on one transaction, the commit's compare-and-set (STARTED to
\* COMMITTING) and the stealers' compare-and-sets (STARTED to LOCKS_STOLEN)
\* succeed at most once in total: never the commit and a stealer both, never
\* two stealers.
C1_OneCasWins ==
  \A t \in Txns : cas[t].commit + cas[t].steal <= 1

\* a commit that passed the expiry check lost its compare-and-set to a stealer
C1_Witness ==
  \E t \in Txns : CommitCasLost(t) /\ cas[t].steal = 1 /\ cas[t].commit = 0

\* C2: a transaction with an expiration writes its batch, in Commit or
\* CommitBatch, only if in that call the expiry check found it live and its
\* compare-and-set to COMMITTING succeeded; found expired at the check, or
\* with the compare-and-set lost, the call has status Expired and has made no
\* store write.
C2_WriteOnlyAfterCas ==
  \A t \in Txns :
    (expiration_time[t] > 0 /\ op[t] \in {"Commit", "CommitBatch"}) =>
      /\ hist[t].wrote =>
           /\ hist[t].checked = "live"
           /\ can_commit[t]
           /\ exec_status[t] = COMMITTING
           /\ cas[t].steal = 0
      /\ (hist[t].checked = "expired" \/ CommitCasLost(t)) =>
           /\ s[t] = "Expired"
           /\ ~hist[t].wrote

\* both cases: one expirable transaction has written after winning its
\* compare-and-set, another was turned away as Expired after losing it
C2_Witness ==
  \E t, u \in Txns :
    /\ expiration_time[t] > 0 /\ hist[t].wrote /\ s[t] = "OK" /\ pc[t] = "idle"
    /\ expiration_time[u] > 0 /\ CommitCasLost(u) /\ s[u] = "Expired"

\* T's compare-and-set to COMMITTING has succeeded and T has not yet released
\* its locks
InFlight(t) ==
  /\ expiration_time[t] > 0
  /\ op[t] \in {"Commit", "CommitBatch"}
  /\ can_commit[t]
  /\ pc[t] \in {"DoCommit_write", "Clear", "CommitBatch_unlock"}

\* C3: while T's commit is in flight (after its compare-and-set to COMMITTING
\* succeeded, before T releases its locks) no TryStealingLocks on T succeeds
\* and no other transaction comes to hold a key that is in T's ledger.
C3_CommitKeepsLedgerKeys ==
  [][\A t \in Txns :
       InFlight(t) =>
         /\ cas'[t].steal = cas[t].steal
         /\ \A u \in Txns \ {t}, k \in GetTrackedKeys(t) :
              <<u, k>> \notin locks => <<u, k>> \notin locks']_vars

\* the transaction u made a step of its own
Moved(u) ==
  \/ pc'[u] # pc[u]
  \/ op'[u] # op[u]
  \/ hist'[u] # hist[u]

\* C4: every (column family, key) lock is held by at most one transaction, and
\* a hold disappears only by a step of its holder or by being stolen: the
\* release another transaction makes of the keys in its ledger (Commit,
\* Rollback, RollbackToSavePoint, destructor) leaves it in place, also after
\* the key was stolen from that transaction.
C4_LocksExclusive ==
  /\ [](\A p \in Pairs : Cardinality(Holders(p)) <= 1)
  /\ [][\A u \in Txns, p \in Pairs :
          (<<u, p>> \in locks /\ <<u, p>> \notin locks') =>
             (Moved(u) \/ cas'[u].steal # cas[u].steal)]_vars

\* t's lock on p was stolen by u, t has since released the keys of its ledger,
\* p among them, and u still holds p
C4_Witness ==
  \E t \in Txns : \E u \in Txns \ {t} : \E p \in Pairs :
    /\ cas[t].steal = 1
    /\ op[t] \in {"Commit", "Rollback", "RollbackToSavePoint", "~TransactionImpl"}
    /\ pc[t] \in {"idle", "destroyed"}
    /\ p \in hist[t].ledger_before
    /\ p \notin GetTrackedKeys(t)
    /\ Holders(p) = {u}

\* t is blocked inside LockBatch on a key u holds
WaitsFor(t, u) ==
  /\ pc[t] = "LockBatch"
  /\ <<u, Head(todo[t])>> \in locks
  /\ AcquireBlocked(t, Head(todo[t]))

\* C5 as stated: no two transactions are each blocked inside LockBatch on a
\* key the other holds.
C5_NoMutualWait ==
  \A t \in Txns : \A u \in Txns \ {t} : ~(WaitsFor(t, u) /\ WaitsFor(u, t))

\* C5, amended: no two transactions are each blocked inside LockBatch on a key
\* the other locked in its own LockBatch call.
C5_NoMutualWaitOnBatchLocks ==
  \A t \in Txns : \A u \in Txns \ {t} :
    ~(/\ WaitsFor(t, u) /\ Head(todo[t]) \in keys_to_unlock[u]
      /\ WaitsFor(u, t) /\ Head(todo[u]) \in keys_to_unlock[t])

\* two LockBatch calls on overlapping batches staged in opposite orders are
\* in progress; one waits for a key the other locked in its call
C5_Witness ==
  \E t \in Txns : \E u \in Txns \ {t} :
    /\ WaitsFor(t, u)
    /\ Head(todo[t]) \in keys_to_unlock[u]
    /\ pc[u] = "LockBatch"
    /\ batch[t] # batch[u]
    /\ PairsOf(batch[t]) = PairsOf(batch[u])

\* ascending column family id, then ascending key bytes
CfThenKeyBefore(p, q) ==
  \/ p[1] < q[1]
  \/ /\ p[1] = q[1]
     /\ \E i \in 1..Len(q[2]) :
          /\ i <= Len(p[2]) + 1
          /\ \A j \in 1..(i - 1) : p[2][j] = q[2][j]
          /\ (i = Len(p[2]) + 1 \/ p[2][i] < q[2][i])

\* C6: the keys LockBatch goes to acquire are the distinct (column family,
\* key) pairs of the batch in ascending column family id and, within a column
\* family, ascending key bytes, whatever the staging order; the acquire calls
\* made follow that sequence.
C6_AcquisitionOrder ==
  \A t \in Txns :
    op[t] = "CommitBatch" =>
      /\ Range(keys_[t]) = PairsOf(batch[t])
      /\ \A i, j \in 1..Len(keys_[t]) :
           i < j => CfThenKeyBefore(keys_[t][i], keys_[t][j])
      /\ IsPrefix(hist[t].acq, keys_[t])

\* a batch staged in descending order, over two column families, fully locked
C6_Witness ==
  \E t \in Txns :
    /\ op[t] = "CommitBatch"
    /\ Len(batch[t]) >= 3
    /\ \A i \in 1..(Len(batch[t]) - 1) :
         CfThenKeyBefore(PairOf(batch[t][i + 1]), PairOf(batch[t][i]))
    /\ hist[t].acq = keys_[t]
    /\ Len(hist[t].acq) = Len(batch[t])

\* C7: in one LockBatch call the lock table's acquire is called at most once
\* per distinct (column family, key) pair.
C7_AcquireOncePerKey ==
  \A t \in Txns :
    op[t] = "CommitBatch" =>
      \A i, j \in 1..Len(hist[t].acq) :
        i # j => hist[t].acq[i] # hist[t].acq[j]

\* a batch whose operations of different kinds name one key, fully locked
C7_Witness ==
  \E t \in Txns :
    /\ op[t] = "CommitBatch"
    /\ \E i, j \in 1..Len(batch[t]) :
         /\ i # j
         /\ PairOf(batch[t][i]) = PairOf(batch[t][j])
         /\ batch[t][i].kind # batch[t][j].kind
    /\ Cardinality(PairsOf(batch[t])) >= 2
    /\ hist[t].acq = keys_[t]
    /\ pc[t] = "idle"

\* C8: after a LockBatch that failed, the lock table holds for the
\* transaction exactly the keys it held before the call (none of its locks
\* having been stolen).
C8_FailedLockBatchRestores ==
  \A t \in Txns :
    (/\ op[t] = "CommitBatch"
     /\ pc[t] = "idle"
     /\ s[t] = "LockTimeout"
     /\ cas[t].steal = 0) =>
       HeldBy(t) = hist[t].held_before

\* C9: CommitBatch writes to the store only after LockBatch locked every key
\* of the batch; when DoCommit has returned, whatever its status, the
\* transaction holds none of the keys in keys_to_unlock; when LockBatch
\* failed, the call made no store write and has the lock failure as status.
C9_CommitBatchLocksThenUnlocks ==
  \A t \in Txns :
    op[t] = "CommitBatch" =>
      /\ hist[t].wrote =>
           /\ todo[t] = <<>>
           /\ keys_to_unlock[t] = PairsOf(batch[t])
           /\ hist[t].acq = keys_[t]
      /\ (pc[t] = "idle" /\ todo[t] = <<>>) =>
           /\ keys_to_unlock[t] = PairsOf(batch[t])
           /\ HeldBy(t) \cap keys_to_unlock[t] = {}
      /\ (pc[t] = "idle" /\ todo[t] # <<>>) =>
           /\ ~hist[t].wrote
           /\ s[t] = "LockTimeout"

\* a CommitBatch whose DoCommit returned Expired has come back with its keys
\* unlocked, and one whose LockBatch failed has come back
C9_Witness ==
  \E t \in Txns : \E u \in Txns \ {t} :
    /\ op[t] = "CommitBatch" /\ pc[t] = "idle" /\ todo[t] = <<>>
    /\ s[t] = "Expired" /\ keys_to_unlock[t] # {}
    /\ op[u] = "CommitBatch" /\ pc[u] = "idle" /\ s[u] = "LockTimeout"

C11_CommitAndRollbackClear ==
  \A t \in Txns :
    (op[t] \in {"Commit", "Rollback"} /\ pc[t] = "idle") =>
      /\ GetTrackedKeys(t) = {}
      /\ HeldBy(t) \cap hist[t].ledger_before = {}

\* a Commit that returned Expired, with keys in its ledger when it was called
C11_Witness ==
  \E t \in Txns :
    /\ op[t] = "Commit" /\ pc[t] = "idle"
    /\ s[t] = "Expired"
    /\ hist[t].ledger_before # {}
    /\ hist[t].held_before # {}

\* C12: when TryLock has failed (lock timeout or Conflict), the lock table
\* holds for the transaction exactly the keys it held before the call and the
\* ledger lists the keys it listed before; during and after a TryLock call the
\* ledger's entries change only in the step in which the call returns OK.
C12_FailedTryLockRestores ==
  /\ [](\A t \in Txns :
          (op[t] = "TryLock" /\ pc[t] = "idle" /\ s[t] # "OK") =>
            /\ HeldBy(t) = hist[t].held_before
            /\ GetTrackedKeys(t) = hist[t].ledger_before)
  /\ [][\A t \in Txns :
          (/\ op'[t] = "TryLock"
           /\ ~(pc[t] = "TryLock_validate" /\ pc'[t] = "idle" /\ s'[t] = "OK")) =>
             tracked_keys'[t] = tracked_keys[t]]_vars

\* a TryLock on a key held since an earlier call has failed with Conflict and
\* the key is still locked
C12_Witness ==
  \E t \in Txns :
    /\ op[t] = "TryLock" /\ pc[t] = "idle"
    /\ s[t] = "Conflict"
    /\ arg[t].pair \in hist[t].held_before
    /\ arg[t].pair \in HeldBy(t)

\* C13: with a snapshot at sequence S and untracked false, a TryLock that
\* obtained the lock of a key not in the ledger returns Conflict, leaving the
\* key out of the ledger, when the key's latest write is after S, and returns
\* OK with S recorded for the key when the latest write is at or before S.
C13_SnapshotValidation ==
  [][\A t \in Txns :
       (/\ pc[t] = "TryLock_validate" /\ pc'[t] = "idle"
        /\ s[t] = "OK"
        /\ ~arg[t].untracked
        /\ snapshot[t] # -1
        /\ arg[t].pair \notin GetTrackedKeys(t)) =>
          IF last_write[arg[t].pair] > snapshot[t]
          THEN /\ s'[t] = "Conflict"
               /\ arg[t].pair \notin DOMAIN tracked_keys'[t]
          ELSE /\ s'[t] = "OK"
               /\ arg[t].pair \in DOMAIN tracked_keys'[t]
               /\ tracked_keys'[t][arg[t].pair] = snapshot[t]]_vars

\* a TryLock under a snapshot took the lock of a key written after the
\* snapshot and has returned Conflict
C13_Witness ==
  \E t \in Txns :
    /\ op[t] = "TryLock" /\ pc[t] = "idle" /\ s[t] = "Conflict"
    /\ ~arg[t].untracked /\ snapshot[t] # -1
    /\ hist[t].acq = <<arg[t].pair>>
    /\ arg[t].pair \notin hist[t].ledger_before
    /\ last_write[arg[t].pair] > snapshot[t]

\* C14: a TryLock on a key that was in the ledger when it was called makes no
\* call of the lock table's acquire; a TryLock on a key that was not makes
\* exactly one, for that key.
C14_AcquireOnlyIfUntracked ==
  \A t \in Txns :
    op[t] = "TryLock" =>
      IF arg[t].pair \in hist[t].ledger_before
      THEN hist[t].acq = <<>>
      ELSE hist[t].acq = IF pc[t] = "TryLock_acquire" THEN <<>>
                         ELSE <<arg[t].pair>>

\* a TryLock on a key the ledger already had has returned OK
C14_Witness ==
  \E t \in Txns :
    /\ op[t] = "TryLock" /\ pc[t] = "idle" /\ s[t] = "OK"
    /\ arg[t].pair \in hist[t].ledger_before
    /\ hist[t].acq = <<>>

\* the keys added to t's ledger since its innermost save point was set
AddedSinceSavePoint(t) ==
  GetTrackedKeys(t) \ sp_ledger[t][Len(sp_ledger[t])]

\* C15: a RollbackToSavePoint call with a save point set releases exactly the
\* locks of the keys added to the ledger since the innermost save point, keeps
\* every other lock, takes the ledger back to the keys it had when that save
\* point was set and removes that one save point; with no save point it
\* returns NotFound and releases nothing.
C15_RollbackToSavePointReleases ==
  [][\A t \in Txns :
       (op'[t] = "RollbackToSavePoint" /\ calls' = calls + 1) =>
         IF sp_ledger[t] = <<>>
         THEN /\ s'[t] = "NotFound"
              /\ locks' = locks
              /\ tracked_keys'[t] = tracked_keys[t]
         ELSE /\ s'[t] = "OK"
              /\ locks' = locks \ { <<t, p>> : p \in AddedSinceSavePoint(t) }
              /\ DOMAIN tracked_keys'[t] = sp_ledger[t][Len(sp_ledger[t])]
              /\ Len(save_points'[t]) = Len(save_points[t]) - 1]_vars

\* k1 was locked before the save point, k2 and k3 after it; the rollback has
\* released k2 and k3 and kept k1
C15_Witness ==
  \E t \in Txns :
    /\ op[t] = "RollbackToSavePoint" /\ pc[t] = "idle" /\ s[t] = "OK"
    /\ Cardinality(hist[t].held_before) = 3
    /\ Cardinality(HeldBy(t)) = 1
    /\ HeldBy(t) = GetTrackedKeys(t)

\* C16: a destroyed transaction holds no key in the lock table and is not in
\* the registry of expirable transactions; a transaction is in that registry
\* exactly while it is constructed and not yet destroyed and its expiration
\* time is nonzero.
C16_DestructionReleases ==
  \A t \in Txns :
    /\ ~alive[t] => HeldBy(t) = {} /\ t \notin registry
    /\ t \in registry <=> (alive[t] /\ expiration_time[t] > 0)

\* an expirable transaction was destroyed while it held a lock, with no
\* commit or rollback in between
C16_Witness ==
  \E t \in Txns :
    /\ ~alive[t] /\ op[t] = "~TransactionImpl"
    /\ expiration_time[t] > 0
    /\ hist[t].held_before # {}
    /\ exec_status[t] = STARTED

\* C17: every transaction's exec_status_ starts as STARTED and changes only
\* from STARTED to COMMITTING or from STARTED to LOCKS_STOLEN; a status of
\* COMMITTING or LOCKS_STOLEN never changes again, whatever is called.
C17_StatusTransitions ==
  /\ \A t \in Txns : exec_status[t] = STARTED
  /\ [][\A t \in Txns :
          exec_status'[t] # exec_status[t] =>
            /\ exec_status[t] = STARTED
            /\ exec_status'[t] \in {COMMITTING, LOCKS_STOLEN}]_vars

\* a transaction that is COMMITTING from an earlier commit made the
\* compare-and-set again in a later commit and kept its status
C17_Witness ==
  \E t \in Txns :
    /\ exec_status[t] = COMMITTING
    /\ cas[t].commit = 1
    /\ CommitCasLost(t)
    /\ pc[t] = "idle"

\* C18: whenever a commit of a transaction with an expiration has made
\* DoCommit's compare-and-set from STARTED to COMMITTING and lost it, the
\* transaction's exec_status_ is LOCKS_STOLEN (the assertion of line 132).
C18_LostCasMeansStolen ==
  \A t \in Txns : CommitCasLost(t) => exec_status[t] = LOCKS_STOLEN

\* C19: a TryLock that runs snapshot validation for a key whose recorded
\* sequence number is at most the snapshot's sequence number succeeds,
\* whatever the store holds for the key, and the ledger entry of the key after
\* the call is that recorded sequence number.
C19_CachedSeqnoReused ==
  [][\A t \in Txns :
       (/\ pc[t] = "TryLock_validate" /\ pc'[t] = "idle"
        /\ ~(arg[t].untracked \/ snapshot[t] = -1)
        /\ s[t] = "OK"
        /\ loc[t].current_seqno <= snapshot[t]) =>
         /\ s'[t] = "OK"
         /\ arg[t].pair \in DOMAIN tracked_keys'[t]
         /\ tracked_keys'[t][arg[t].pair] = loc[t].current_seqno]_vars

\* the last step of a TryLock of t that skips validation: untracked, or t has
\* no snapshot
SkipsValidation(t) ==
  /\ pc[t] = "TryLock_validate" /\ pc'[t] = "idle"
  /\ arg[t].untracked \/ snapshot[t] = -1

\* C20 as stated: a TryLock called with untracked true, or on a transaction
\* without a snapshot, ends with the status of the lock table's acquire, never
\* Conflict, and on success the ledger entry of the key is the store's latest
\* sequence number.
C20_UntrackedStampsLatest ==
  [][\A t \in Txns :
       SkipsValidation(t) =>
         /\ s'[t] = s[t]
         /\ s'[t] # "Conflict"
         /\ s'[t] = "OK" =>
              /\ arg[t].pair \in DOMAIN tracked_keys'[t]
              /\ tracked_keys'[t][arg[t].pair] = latest_seq]_vars

\* C20 amended: such a TryLock ends with the status of the lock table's
\* acquire, never Conflict; on success the ledger entry of the key is the
\* store's latest sequence number if the key was not in the ledger or its
\* entry was kMaxSequenceNumber, and the sequence number already recorded
\* otherwise.
C20_UntrackedStampsLatestOrKeeps ==
  [][\A t \in Txns :
       SkipsValidation(t) =>
         /\ s'[t] = s[t]
         /\ s'[t] # "Conflict"
         /\ s'[t] = "OK" =>
              /\ arg[t].pair \in DOMAIN tracked_keys'[t]
              /\ tracked_keys'[t][arg[t].pair] =
                   IF \/ arg[t].pair \notin GetTrackedKeys(t)
                      \/ tracked_keys[t][arg[t].pair] = kMaxSequenceNumber
                   THEN latest_seq
                   ELSE tracked_keys[t][arg[t].pair]]_vars

\* an untracked TryLock under a snapshot took a key written after the
\* snapshot, returned OK and stamped the latest sequence number
C20_Witness ==
  \E t \in Txns :
    /\ op[t] = "TryLock" /\ pc[t] = "idle" /\ s[t] = "OK"
    /\ arg[t].untracked /\ snapshot[t] # -1
    /\ hist[t].acq = <<arg[t].pair>>
    /\ last_write[arg[t].pair] > snapshot[t]
    /\ arg[t].pair \in GetTrackedKeys(t)
    /\ tracked_keys[t][arg[t].pair] = latest_seq

====
